---- MODULE Spec2Model ----
(***************************************************************************)
(* aws.py: manage cloud instances whose metadata is defined in hiera.      *)
(*                                                                         *)
(* One invocation of the script is a process that walks main(): it         *)
(* resolves the metadata of <name> with one hiera query per field, then    *)
(* dispatches on the command and the resolved provider to ec2_start,       *)
(* ec2_stop or ec2_status, each of which is a sequence of EC2 API calls.   *)
(* The EC2 side (the instances of every region, their states and tags) is  *)
(* shared state that the provider moves on its own between the calls.      *)
(***************************************************************************)
EXTENDS Integers, Sequences, FiniteSets, TLC

VARIABLES cloud, proc

vars == <<cloud, proc>>

(***************************************************************************)
(* Bounds of the model.                                                    *)
(***************************************************************************)
\* instances that exist in EC2 before the first invocation
MaxPre == 2
\* instances EC2 holds at most (RunInstances is refused beyond)
MaxInstances == 3
\* invocation slots (one invocation at a time under Spec)
NumProcs == 2

Procs == 1..NumProcs

(***************************************************************************)
(* The command line (docopt usage).                                        *)
(***************************************************************************)
Commands == {"start", "stop", "toggle", "status", "check"}

\* arguments['<name>'] is None when status is given no name; hiera is then
\* asked for 'fqdn=None'
NoName == "None"

Nodes == {"web", "old", "lab"}

\* <name> is optional for status only
Usage == {[cmd |-> c, name |-> n] : c \in Commands, n \in Nodes}
            \cup {[cmd |-> "status", name |-> NoName]}

(***************************************************************************)
(* hiera: the external configuration store.                                *)
(***************************************************************************)
CommonParams == <<"hostname", "domain", "provider", "role", "repo">>

AwsParams == <<"subnet", "secgroup", "keypair", "ami", "type", "region">>

\* the store's content for one node: key -> the values hiera may print
NodeData(hostname, provider) ==
    ("metadata:hostname" :> {hostname}) @@ ("metadata:domain" :> {"example.com"})
    @@ ("metadata:provider" :> {provider}) @@ ("metadata:role" :> {"www"})
    @@ ("metadata:repo" :> {"https://x/y.git"})
    @@ ("metadata:aws:subnet" :> {"subnet-1"}) @@ ("metadata:aws:secgroup" :> {"sg-1"})
    @@ ("metadata:aws:keypair" :> {"k1"}) @@ ("metadata:aws:ami" :> {"ami-1"})
    @@ ("metadata:aws:type" :> {"t2.nano"}) @@ ("metadata:aws:region" :> {"us-west-2"})

\* "web" is an aws node, "old" a digital ocean node, "lab" a node of a
\* provider the script does not know. "app", "www" and "dot" are aws nodes
\* like "web" but for their hostname, their domain, or both. For 'fqdn=None'
\* the store answers with whatever its hierarchy defaults to: no provider
\* (hiera prints nil), or a site-wide default provider.
HieraData(variable) ==
    CASE variable = "fqdn=web" -> NodeData("web", "aws")
      [] variable = "fqdn=old" -> NodeData("old", "do")
      [] variable = "fqdn=lab" -> NodeData("lab", "gce")
      [] variable = "fqdn=app" -> NodeData("app", "aws")
      [] variable = "fqdn=www" -> [NodeData("web", "aws") EXCEPT
                                     !["metadata:domain"] = {"example.org"}]
      [] variable = "fqdn=dot" -> [NodeData("web.example", "aws") EXCEPT
                                     !["metadata:domain"] = {"com"}]
      [] OTHER -> [NodeData("web", "aws") EXCEPT
                     !["metadata:provider"] = {"nil", "aws", "do"}]

\* hiera_get: the stripped output of the hiera binary, or CalledProcessError
\* when the binary exits non-zero (store unreachable, bad config)
hiera_get(item, variable) ==
    {[ok |-> TRUE, value |-> v] : v \in HieraData(variable)[item]}
        \cup {[ok |-> FALSE, value |-> ""]}

(***************************************************************************)
(* EC2: instance records, filters and requests.                            *)
(***************************************************************************)
States == {"pending", "running", "shutting-down", "terminated", "stopping", "stopped"}

Regions == {"us-east-1", "us-west-2"}

NoTag == ""

\* a tag:Name filter value matches instances that carry the tag; * matches
\* any value of it
NameMatches(pattern, name) ==
    name # NoTag /\ (pattern = "*" \/ pattern = name)

\* resource.instances.filter(Filters=[instance-state-name, tag:Name]) of a
\* resource opened on region: the ids it yields when iterated
DescribeInstances(region, states, pattern) ==
    {i \in 1..Len(cloud) : /\ cloud[i].region = region
                           /\ cloud[i].state \in states
                           /\ NameMatches(pattern, cloud[i].name)}

\* the instances of an identity in a region that run
RunningOf(region, fqdn) ==
    {i \in 1..Len(cloud) : /\ cloud[i].region = region
                           /\ cloud[i].name = fqdn
                           /\ cloud[i].state = "running"}

\* the instances that make an identity present: tagged with its fqdn and
\* pending or running
PresentOf(region, fqdn) ==
    {i \in 1..Len(cloud) : /\ cloud[i].region = region
                           /\ cloud[i].name = fqdn
                           /\ cloud[i].state \in {"pending", "running"}}

\* what an observer of the identity finds at this moment
Observe(region, fqdn) ==
    IF RunningOf(region, fqdn) # {} THEN "running"
    ELSE IF PresentOf(region, fqdn) # {} THEN "pending"
    ELSE "absent"

RECURSIVE SetToSeq(_)
\* the ids of a result in ascending order
SetToSeq(S) ==
    IF S = {} THEN <<>>
    ELSE LET m == CHOOSE x \in S : \A y \in S : x <= y
         IN  <<m>> \o SetToSeq(S \ {m})

\* the kinds of instance already there when the first invocation begins
\* (launched by earlier runs, by other tools or by hand)
PreInstances ==
    LET kind(s, n, r) == [state |-> s, name |-> n, role |-> "www", region |-> r]
    IN  <<kind("running", "web.example.com", "us-west-2"),
          kind("pending", "web.example.com", "us-west-2"),
          kind("running", "db.example.com", "us-west-2"),
          kind("running", "web.example.com", "us-east-1"),
          kind("running", "db.example.com", "us-east-1")>>

\* the clouds the first invocation may find. An id is a position in cloud;
\* nothing depends on which id an instance got, so one order stands for all.
PreClouds ==
    UNION {{[k \in 1..n |-> PreInstances[f[k]]] :
              f \in {g \in [1..n -> 1..Len(PreInstances)] :
                        \A j \in 1..(n - 1) : g[j] <= g[j + 1]}} :
           n \in 0..MaxPre}

(***************************************************************************)
(* One invocation: its position in the script and its local variables.     *)
(***************************************************************************)
Unset == ""

MetaKeys == {"hostname", "domain", "provider", "role", "repo", "fqdn",
             "subnet", "secgroup", "keypair", "ami", "type", "region"}

\* an invocation slot before its first invocation
IdleProc ==
    [pc |-> "idle",
     arguments |-> [cmd |-> "", name |-> ""],
     metadata |-> [k \in MetaKeys |-> Unset],
     queries |-> <<>>,       \* the hiera keys asked, in order
     resource |-> "",        \* region of the boto3 resource, once opened
     count |-> 0,
     instances |-> <<>>,     \* the collection being iterated
     idx |-> 0,              \* position of the running for loop
     calls |-> <<>>,         \* the cloud API calls issued, in order
     output |-> <<>>,        \* the lines printed, in order
     exitcode |-> 0,
     error |-> "",
     \* history, for the properties only: what EC2 held for the identity
     \* when the command looked (seen, found), and the start before this
     \* invocation if it launched the node and returned (prior)
     seen |-> "",
     found |-> {},
     prior |-> [name |-> "", fqdn |-> "", region |-> ""]]

\* the history a command records when it looks at EC2
Looked(pr) ==
    [pr EXCEPT !.seen = Observe(pr.resource, pr.metadata.fqdn),
               !.found = RunningOf(pr.resource, pr.metadata.fqdn)]

\* the history a slot hands to its next invocation
Prior(pr) ==
    IF pr.pc = "done" /\ pr.arguments.cmd = "start" /\ pr.exitcode = 0
       /\ pr.seen = "absent"
    THEN [name |-> pr.arguments.name, fqdn |-> pr.metadata.fqdn,
          region |-> pr.resource]
    ELSE IdleProc.prior

Call(op, region, name, states, id, ok) ==
    [op |-> op, region |-> region, name |-> name, states |-> states,
     id |-> id, ok |-> ok]

Line(text, n) == [text |-> text, n |-> n]

\* the function returns to the shell: exit code 0
Return(pr) == [pr EXCEPT !.pc = "done", !.exitcode = 0]

\* an exception nobody catches: traceback and exit code 1
Raise(pr, err) == [pr EXCEPT !.pc = "done", !.exitcode = 1, !.error = err]

Active(p) == proc[p].pc \notin {"idle", "done"}

(***************************************************************************)
(* main(docopt(__doc__))                                                   *)
(***************************************************************************)
\* a main that opens its connection before it asks hiera
BeginConnected(p) ==
    /\ \A q \in Procs : ~Active(q)
    /\ p = 1
    /\ \E a \in Usage :
         proc' = [proc EXCEPT ![p] =
                    [IdleProc EXCEPT !.pc = "metadata_get", !.arguments = a,
                                     !.idx = 1, !.resource = "us-east-1",
                                     !.calls = <<[op |-> "connect",
                                                  region |-> "us-east-1",
                                                  name |-> "", states |-> {},
                                                  id |-> 0, ok |-> TRUE]>>]]
    /\ UNCHANGED cloud

\* a new invocation takes the first slot; under Spec invocations do not
\* overlap
Begin(p) ==
    /\ \A q \in Procs : ~Active(q)
    /\ p = 1
    /\ \E a \in Usage :
         proc' = [proc EXCEPT ![p] =
                    [IdleProc EXCEPT !.pc = "metadata_get", !.arguments = a,
                                     !.idx = 1, !.prior = Prior(proc[p])]]
    /\ UNCHANGED cloud

\* an fqdn put together without the dot
BuildFqdnNoDot(hostname, domain) == hostname \o domain

\* metadata['fqdn'] = '{0}.{1}'.format(hostname, domain)
BuildFqdn(hostname, domain) == hostname \o "." \o domain

\* a resolver that asks for the aws parameters of every node
MetadataCommonAlwaysAws(p) ==
    /\ proc[p].pc = "metadata_get"
    /\ LET pr == proc[p]
           item == CommonParams[pr.idx]
           key == "metadata:" \o item
       IN  \E r \in hiera_get(key, "fqdn=" \o pr.arguments.name) :
             LET asked == [pr EXCEPT !.queries = Append(@, key)]
                 got == [asked EXCEPT !.metadata[item] = r.value]
                 built == [got EXCEPT !.metadata.fqdn =
                             BuildFqdn(got.metadata.hostname, got.metadata.domain)]
             IN  proc' = [proc EXCEPT ![p] =
                    IF ~r.ok THEN Raise(asked, "CalledProcessError")
                    ELSE IF pr.idx < Len(CommonParams)
                         THEN [got EXCEPT !.idx = pr.idx + 1]
                    ELSE [built EXCEPT !.pc = "metadata_aws", !.idx = 1]]
    /\ UNCHANGED cloud

\* metadata_get, first loop: one hiera query per common parameter, then the
\* fqdn and the choice of the provider's parameters
MetadataCommon(p) ==
    /\ proc[p].pc = "metadata_get"
    /\ LET pr == proc[p]
           item == CommonParams[pr.idx]
           key == "metadata:" \o item
       IN  \E r \in hiera_get(key, "fqdn=" \o pr.arguments.name) :
             LET asked == [pr EXCEPT !.queries = Append(@, key)]
                 got == [asked EXCEPT !.metadata[item] = r.value]
                 built == [got EXCEPT !.metadata.fqdn =
                             BuildFqdn(got.metadata.hostname, got.metadata.domain)]
             IN  proc' = [proc EXCEPT ![p] =
                    IF ~r.ok THEN Raise(asked, "CalledProcessError")
                    ELSE IF pr.idx < Len(CommonParams)
                         THEN [got EXCEPT !.idx = pr.idx + 1]
                    ELSE IF built.metadata.provider = "aws"
                         THEN [built EXCEPT !.pc = "metadata_aws", !.idx = 1]
                    ELSE [built EXCEPT !.pc = "main"]]
    /\ UNCHANGED cloud

\* metadata_get, second loop: the parameters of provider aws
MetadataAws(p) ==
    /\ proc[p].pc = "metadata_aws"
    /\ LET pr == proc[p]
           item == AwsParams[pr.idx]
           key == "metadata:aws:" \o item
       IN  \E r \in hiera_get(key, "fqdn=" \o pr.arguments.name) :
             LET asked == [pr EXCEPT !.queries = Append(@, key)]
                 got == [asked EXCEPT !.metadata[item] = r.value]
             IN  proc' = [proc EXCEPT ![p] =
                    IF ~r.ok THEN Raise(asked, "CalledProcessError")
                    ELSE IF pr.idx < Len(AwsParams)
                         THEN [got EXCEPT !.idx = pr.idx + 1]
                    ELSE [got EXCEPT !.pc = "main"]]
    /\ UNCHANGED cloud

\* metadata_print: a header and one line per key
metadata_print(metadata) ==
    LET keys == SelectSeq(CommonParams \o <<"fqdn">> \o AwsParams,
                          LAMBDA k : metadata[k] # Unset)
    IN  <<Line("parameter value", 0)>> \o
        [k \in 1..Len(keys) |-> Line(keys[k] \o " " \o metadata[keys[k]], 0)]

\* a chain that looks at the provider before it looks for check
DispatchProviderFirst(arguments, metadata) ==
    IF metadata.provider = "aws" THEN "aws"
    ELSE IF arguments.cmd = "check" THEN "check"
    ELSE IF metadata.provider = "do" THEN "do"
    ELSE IF arguments.cmd = "status" THEN "all"
    ELSE "unsupported"

\* the if/elif chain of main: which branch runs
Dispatch(arguments, metadata) ==
    IF arguments.cmd = "check" THEN "check"
    ELSE IF metadata.provider = "aws" THEN "aws"
    ELSE IF metadata.provider = "do" THEN "do"
    ELSE IF arguments.cmd = "status" THEN "all"
    ELSE "unsupported"

\* the inner if/elif chain under provider aws: where the command goes
AwsCommand(cmd) ==
    CASE cmd = "start" -> "ec2_start"
      [] cmd = "stop" -> "ec2_stop"
      [] cmd = "status" -> "ec2_status"
      [] OTHER -> "done"     \* toggle: pass

\* boto3.resource('ec2', region): the connection every later call uses
Connect(pr, region) ==
    [pr EXCEPT !.resource = region,
               !.calls = Append(@, Call("connect", region, "", {}, 0, TRUE))]

Main(p) ==
    /\ proc[p].pc = "main"
    /\ LET pr == proc[p]
           branch == Dispatch(pr.arguments, pr.metadata)
       IN  proc' = [proc EXCEPT ![p] =
             CASE branch = "check" ->
                    Return([pr EXCEPT !.output = @ \o metadata_print(pr.metadata)])
               [] branch = "aws" ->
                    LET open == Connect(pr, pr.metadata.region)
                        to == AwsCommand(pr.arguments.cmd)
                    IN  IF to = "done" THEN Return(Looked(open))
                        ELSE [open EXCEPT !.pc = to]
               [] branch = "do" ->
                    Return([pr EXCEPT !.output =
                              Append(@, Line("Digital ocean not yet supported", 0))])
               [] branch = "all" ->
                    [Connect([pr EXCEPT !.metadata.fqdn = "*"], "us-east-1")
                        EXCEPT !.pc = "ec2_status"]
               [] OTHER ->
                    [pr EXCEPT !.pc = "done", !.exitcode = 1, !.error = "SystemExit",
                               !.output = Append(@,
                                  Line("Unsupported metadata:provider from hiera: "
                                         \o pr.metadata.provider, 0))]]
    /\ UNCHANGED cloud

(***************************************************************************)
(* ec2_status(resource, metadata)                                          *)
(***************************************************************************)
\* ec2_status returns: to the for loop of ec2_start when called from there,
\* else to main
StatusReturn(pr) ==
    IF pr.arguments.cmd = "start" /\ pr.idx < Len(pr.instances)
    THEN [pr EXCEPT !.pc = "create_tags", !.idx = pr.idx + 1]
    ELSE Return(pr)

StatusStates == {"running"}

\* a report that prints its table whatever the count
StatusCountAlwaysTable(p) ==
    /\ proc[p].pc = "ec2_status"
    /\ LET pr == proc[p]
           found == DescribeInstances(pr.resource, StatusStates, pr.metadata.fqdn)
       IN  \E ok \in BOOLEAN :
             LET called == [pr EXCEPT !.calls = Append(@,
                              Call("list", pr.resource, pr.metadata.fqdn,
                                   StatusStates, 0, ok))]
                 counted == [called EXCEPT !.count = Cardinality(found)]
             IN  proc' = [proc EXCEPT ![p] =
                    IF ~ok THEN Raise(called, "ClientError")
                    ELSE [counted EXCEPT
                            !.pc = "status_rows",
                            !.output = @ \o <<Line("instances running", counted.count),
                                              Line("instance_id public_ip_address", 0)>>]]
    /\ UNCHANGED cloud

\* count = sum(1 for _ in instances): the first iteration of the collection
StatusCount(p) ==
    /\ proc[p].pc = "ec2_status"
    /\ LET pr == proc[p]
           found == DescribeInstances(pr.resource, StatusStates, pr.metadata.fqdn)
       IN  \E ok \in BOOLEAN :
             LET called == [pr EXCEPT !.calls = Append(@,
                              Call("list", pr.resource, pr.metadata.fqdn,
                                   StatusStates, 0, ok))]
                 counted == [called EXCEPT !.count = Cardinality(found)]
             IN  proc' = [proc EXCEPT ![p] =
                    IF ~ok THEN Raise(called, "ClientError")
                    ELSE IF counted.count = 0
                         THEN StatusReturn([counted EXCEPT !.output =
                                  Append(@, Line("No instances running", 0))])
                    ELSE [counted EXCEPT
                            !.pc = "status_rows",
                            !.output = @ \o <<Line("instances running", counted.count),
                                              Line("instance_id public_ip_address", 0)>>]]
    /\ UNCHANGED cloud

\* for instance in instances: the second iteration of the collection
StatusRows(p) ==
    /\ proc[p].pc = "status_rows"
    /\ LET pr == proc[p]
           found == SetToSeq(DescribeInstances(pr.resource, StatusStates,
                                               pr.metadata.fqdn))
       IN  \E ok \in BOOLEAN :
             LET called == [pr EXCEPT !.calls = Append(@,
                              Call("list", pr.resource, pr.metadata.fqdn,
                                   StatusStates, 0, ok))]
             IN  proc' = [proc EXCEPT ![p] =
                    IF ~ok THEN Raise(called, "ClientError")
                    ELSE StatusReturn([called EXCEPT !.output = @ \o
                            [k \in 1..Len(found) |-> Line("row", found[k])]])]
    /\ UNCHANGED cloud

(***************************************************************************)
(* ec2_start(resource, metadata)                                           *)
(***************************************************************************)
\* a filter that forgets the instances still starting
StartStatesRunningOnly == {"running"}

StartStates == {"pending", "running"}

\* a guard that is off by one
AlreadyRunningOffByOne(count) == count > 1

\* if count > 0: another instance of the name is running or starting
AlreadyRunning(count) == count > 0

StartCheck(p) ==
    /\ proc[p].pc = "ec2_start"
    /\ LET pr == proc[p]
           found == DescribeInstances(pr.resource, StartStates, pr.metadata.fqdn)
       IN  \E ok \in BOOLEAN :
             LET called == [pr EXCEPT !.calls = Append(@,
                              Call("list", pr.resource, pr.metadata.fqdn,
                                   StartStates, 0, ok))]
                 counted == Looked([called EXCEPT !.count = Cardinality(found)])
             IN  proc' = [proc EXCEPT ![p] =
                    IF ~ok THEN Raise(called, "ClientError")
                    ELSE IF AlreadyRunning(counted.count)
                         THEN Return([counted EXCEPT !.output =
                                  Append(@, Line(pr.metadata.fqdn
                                                   \o " is currently running", 0))])
                    ELSE [counted EXCEPT !.pc = "create_instances"]]
    /\ UNCHANGED cloud

\* a create that carries the identity as its idempotency token: the second
\* create for an identity is answered with the instance of the first
StartCreateIdempotent(p) ==
    /\ proc[p].pc = "create_instances"
    /\ LET pr == proc[p]
           earlier == {q \in Procs \ {p} :
                         /\ proc[q].arguments = pr.arguments
                         /\ proc[q].instances # <<>>}
           id == IF earlier = {} THEN Len(cloud) + 1
                 ELSE proc[CHOOSE q \in earlier : TRUE].instances[1]
       IN  \/ /\ earlier # {} \/ Len(cloud) < MaxInstances
              /\ cloud' = IF earlier # {} THEN cloud
                          ELSE Append(cloud, [state |-> "pending", name |-> NoTag,
                                              role |-> NoTag, region |-> pr.resource])
              /\ proc' = [proc EXCEPT ![p] =
                    [pr EXCEPT !.calls = Append(@, Call("create", pr.resource, "",
                                                        {}, id, TRUE)),
                               !.instances = <<id>>, !.idx = 1,
                               !.pc = "create_tags"]]
           \/ /\ proc' = [proc EXCEPT ![p] =
                    Raise([pr EXCEPT !.calls = Append(@, Call("create", pr.resource,
                                                              "", {}, 0, FALSE))],
                          "ClientError")]
              /\ UNCHANGED cloud

\* resource.create_instances(MinCount=1, MaxCount=1, ...): one new instance,
\* pending and without tags, in the region of the resource
StartCreate(p) ==
    /\ proc[p].pc = "create_instances"
    /\ LET pr == proc[p]
           id == Len(cloud) + 1
       IN  \/ /\ Len(cloud) < MaxInstances
              /\ cloud' = Append(cloud, [state |-> "pending", name |-> NoTag,
                                         role |-> NoTag, region |-> pr.resource])
              /\ proc' = [proc EXCEPT ![p] =
                    [pr EXCEPT !.calls = Append(@, Call("create", pr.resource, "",
                                                        {}, id, TRUE)),
                               !.instances = <<id>>, !.idx = 1,
                               !.pc = "create_tags"]]
           \/ /\ proc' = [proc EXCEPT ![p] =
                    Raise([pr EXCEPT !.calls = Append(@, Call("create", pr.resource,
                                                              "", {}, 0, FALSE))],
                          "ClientError")]
              /\ UNCHANGED cloud

\* a start that goes on to the wait whether or not the tags were set
StartTagUnchecked(p) ==
    /\ proc[p].pc = "create_tags"
    /\ LET pr == proc[p]
           id == pr.instances[pr.idx]
       IN  \E ok \in BOOLEAN :
             /\ proc' = [proc EXCEPT ![p] =
                   [pr EXCEPT !.calls = Append(@, Call("tag", pr.resource,
                                                 pr.metadata.fqdn, {}, id, ok)),
                              !.pc = "wait_until_running"]]
             /\ cloud' = IF ok
                         THEN [cloud EXCEPT ![id].name = pr.metadata.fqdn,
                                            ![id].role = pr.metadata.role]
                         ELSE cloud

\* instance.create_tags(Tags=[Role, Name])
StartTag(p) ==
    /\ proc[p].pc = "create_tags"
    /\ LET pr == proc[p]
           id == pr.instances[pr.idx]
       IN  \E ok \in BOOLEAN :
             LET called == [pr EXCEPT !.calls = Append(@,
                              Call("tag", pr.resource, pr.metadata.fqdn, {}, id, ok))]
             IN  /\ proc' = [proc EXCEPT ![p] =
                       IF ok THEN [called EXCEPT !.pc = "wait_until_running"]
                       ELSE Raise(called, "ClientError")]
                 /\ cloud' = IF ok
                             THEN [cloud EXCEPT ![id].name = pr.metadata.fqdn,
                                                ![id].role = pr.metadata.role]
                             ELSE cloud

\* a start that reports without waiting for the instance
StartWaitSkipped(p) ==
    /\ proc[p].pc = "wait_until_running"
    /\ proc' = [proc EXCEPT ![p].pc = "ec2_status"]
    /\ UNCHANGED cloud

\* a wait that polls for as long as the instance is pending
StartWaitUnbounded(p) ==
    /\ proc[p].pc = "wait_until_running"
    /\ LET pr == proc[p]
           id == pr.instances[pr.idx]
       IN  /\ cloud[id].state # "pending"
           /\ \E up \in BOOLEAN :
                LET ok == up /\ cloud[id].state = "running"
                    called == [pr EXCEPT !.calls = Append(@,
                                 Call("wait", pr.resource, "", {}, id, ok))]
                IN  proc' = [proc EXCEPT ![p] =
                       IF ok THEN [called EXCEPT !.pc = "ec2_status"]
                       ELSE Raise(called, "WaiterError")]
    /\ UNCHANGED cloud

\* instance.wait_until_running(): returns once the instance is running;
\* WaiterError when EC2 shows it in a state it cannot run from, when the
\* attempts run out before it runs, or when a poll fails
StartWait(p) ==
    /\ proc[p].pc = "wait_until_running"
    /\ LET pr == proc[p]
           id == pr.instances[pr.idx]
       IN  \E up \in BOOLEAN :
             LET ok == up /\ cloud[id].state = "running"
                 called == [pr EXCEPT !.calls = Append(@,
                              Call("wait", pr.resource, "", {}, id, ok))]
             IN  proc' = [proc EXCEPT ![p] =
                    IF ok THEN [called EXCEPT !.pc = "ec2_status"]
                    ELSE Raise(called, "WaiterError")]
    /\ UNCHANGED cloud

(***************************************************************************)
(* ec2_stop(resource, metadata)                                            *)
(***************************************************************************)
\* a filter that also takes the instances still starting
StopStatesWithPending == {"pending", "running"}

StopStates == {"running"}

StopList(p) ==
    /\ proc[p].pc = "ec2_stop"
    /\ LET pr == proc[p]
           found == SetToSeq(DescribeInstances(pr.resource, StopStates,
                                               pr.metadata.fqdn))
       IN  \E ok \in BOOLEAN :
             LET called == [pr EXCEPT !.calls = Append(@,
                              Call("list", pr.resource, pr.metadata.fqdn,
                                   StopStates, 0, ok))]
                 listed == Looked([called EXCEPT !.instances = found, !.idx = 1])
             IN  proc' = [proc EXCEPT ![p] =
                    IF ~ok THEN Raise(called, "ClientError")
                    ELSE IF found = <<>> THEN Return(listed)
                    ELSE [listed EXCEPT !.pc = "stop"]]
    /\ UNCHANGED cloud

\* StopInstances is accepted for an instance that runs or is already
\* stopping or stopped
StopAccepted(state) == state \in {"running", "stopping", "stopped"}

\* a loop body that forgets the stop request
StopStopSkipped(p) ==
    /\ proc[p].pc = "stop"
    /\ proc' = [proc EXCEPT ![p].pc = "terminate"]
    /\ UNCHANGED cloud

\* resource.instances.filter(InstanceIds=[instance.id]).stop()
StopStop(p) ==
    /\ proc[p].pc = "stop"
    /\ LET pr == proc[p]
           id == pr.instances[pr.idx]
           said == [pr EXCEPT !.output = Append(@, Line("Terminating instance id", id))]
       IN  \E up \in BOOLEAN :
             LET ok == up /\ StopAccepted(cloud[id].state)
                 called == [said EXCEPT !.calls = Append(@,
                              Call("stop", pr.resource, "", {}, id, ok))]
             IN  /\ proc' = [proc EXCEPT ![p] =
                       IF ok THEN [called EXCEPT !.pc = "terminate"]
                       ELSE Raise(called, "ClientError")]
                 /\ cloud' = IF ok /\ cloud[id].state = "running"
                             THEN [cloud EXCEPT ![id].state = "stopping"]
                             ELSE cloud

\* resource.instances.filter(InstanceIds=[instance.id]).terminate()
StopTerminate(p) ==
    /\ proc[p].pc = "terminate"
    /\ LET pr == proc[p]
           id == pr.instances[pr.idx]
       IN  \E ok \in BOOLEAN :
             LET called == [pr EXCEPT !.calls = Append(@,
                              Call("terminate", pr.resource, "", {}, id, ok))]
             IN  /\ proc' = [proc EXCEPT ![p] =
                       IF ~ok THEN Raise(called, "ClientError")
                       ELSE IF pr.idx < Len(pr.instances)
                            THEN [called EXCEPT !.pc = "stop", !.idx = pr.idx + 1]
                       ELSE Return(called)]
                 /\ cloud' = IF ok /\ cloud[id].state # "terminated"
                             THEN [cloud EXCEPT ![id].state = "shutting-down"]
                             ELSE cloud

(***************************************************************************)
(* EC2 moves an instance on its own.                                       *)
(***************************************************************************)
\* pending ends in running, or in terminated when the launch fails
ProviderNext(state) ==
    CASE state = "pending" -> {"running", "terminated"}
      [] state = "stopping" -> {"stopped"}
      [] state = "shutting-down" -> {"terminated"}
      [] OTHER -> {}

ProviderStep(i) ==
    /\ \E s \in ProviderNext(cloud[i].state) :
         cloud' = [cloud EXCEPT ![i].state = s]
    /\ UNCHANGED proc

(***************************************************************************)
(* The specification: invocations one after the other.                     *)
(***************************************************************************)
Init ==
    /\ cloud \in PreClouds
    /\ proc = [p \in Procs |-> IdleProc]

Next ==
    \/ \E p \in Procs :
         \/ Begin(p)
         \/ MetadataCommon(p)
         \/ MetadataAws(p)
         \/ Main(p)
         \/ StartCheck(p)
         \/ StartCreate(p)
         \/ StartTag(p)
         \/ StartWait(p)
         \/ StatusCount(p)
         \/ StatusRows(p)
         \/ StopList(p)
         \/ StopStop(p)
         \/ StopTerminate(p)
    \/ \E i \in 1..Len(cloud) : ProviderStep(i)

Spec == Init /\ [][Next]_vars

(***************************************************************************)
(* The same invocations, one after the other, from an EC2 that holds no    *)
(* instance of the aws node's identity: what it holds of that identity     *)
(* later, the invocations have made.                                       *)
(***************************************************************************)
InitAbsent ==
    /\ Init
    /\ \A i \in 1..Len(cloud) : cloud[i].name # BuildFqdn("web", "example.com")

SpecFromAbsent == InitAbsent /\ [][Next]_vars

(***************************************************************************)
(* The resolver by itself: every slot resolves the metadata of one node    *)
(* and prints it (check), so that the metadata of two nodes with different *)
(* stored values stand side by side.                                       *)
(***************************************************************************)
ResolveNodes == {"web", "app", "www", "dot"}

\* an invocation at line 250, about to call metadata_get
AtMetadataGet(a) ==
    [IdleProc EXCEPT !.pc = "metadata_get", !.arguments = a, !.idx = 1]

InitResolve ==
    /\ cloud = <<>>
    /\ proc \in [Procs -> {AtMetadataGet([cmd |-> "check", name |-> n]) :
                              n \in ResolveNodes}]

NextResolve ==
    \E p \in Procs :
      \/ MetadataCommon(p)
      \/ MetadataAws(p)
      \/ Main(p)

SpecResolve == InitResolve /\ [][NextResolve]_vars

(***************************************************************************)
(* Invocations that overlap: every slot runs one invocation for the aws    *)
(* node, and the invocations take their steps in any order. Resolving the  *)
(* metadata touches nothing they share, so each begins where main has its  *)
(* metadata and is about to dispatch.                                      *)
(***************************************************************************)
\* the metadata metadata_get returns for a node whose queries all succeed
ResolvedMetadata(name) ==
    LET data == HieraData("fqdn=" \o name)
        value(key) == CHOOSE v \in data[key] : TRUE
    IN  [k \in MetaKeys |->
           IF k = "fqdn"
           THEN BuildFqdn(value("metadata:hostname"), value("metadata:domain"))
           ELSE IF k \in {CommonParams[j] : j \in 1..Len(CommonParams)}
           THEN value("metadata:" \o k)
           ELSE value("metadata:aws:" \o k)]

\* an invocation for an aws node at line 254, metadata_get behind it
AtMain(a) ==
    [IdleProc EXCEPT
       !.pc = "main", !.arguments = a, !.idx = Len(AwsParams),
       !.metadata = ResolvedMetadata(a.name),
       !.queries = [k \in 1..Len(CommonParams) |-> "metadata:" \o CommonParams[k]]
                     \o [k \in 1..Len(AwsParams) |-> "metadata:aws:" \o AwsParams[k]]]

OverlapUsage == {[cmd |-> c, name |-> "web"] : c \in {"start", "stop", "status"}}

InitOverlap ==
    /\ cloud \in PreClouds
    /\ proc \in [Procs -> {IdleProc} \cup {AtMain(a) : a \in OverlapUsage}]

\* the next statement of invocation p
Step(p) ==
    \/ Main(p)
    \/ StartCheck(p)
    \/ StartCreate(p)
    \/ StartTag(p)
    \/ StartWait(p)
    \/ StatusCount(p)
    \/ StatusRows(p)
    \/ StopList(p)
    \/ StopStop(p)
    \/ StopTerminate(p)

NextOverlap ==
    \/ \E p \in Procs : Step(p)
    \/ \E i \in 1..Len(cloud) : ProviderStep(i)

SpecOverlap == InitOverlap /\ [][NextOverlap]_vars

\* Each invocation is a process of its own that the operating system keeps
\* running: an invocation that has a next statement executes it. Nothing
\* says that EC2 ever moves an instance on.
SpecOverlapFair == SpecOverlap /\ \A p \in Procs : WF_vars(Step(p))

(***************************************************************************)
(* Properties.                                                             *)
(***************************************************************************)
Ops(pr) == [k \in 1..Len(pr.calls) |-> pr.calls[k].op]

IsPrefix(s, t) == Len(s) <= Len(t) /\ \A k \in 1..Len(s) : s[k] = t[k]

\* C1: idempotence of start. When a start that found no pending or running
\* instance of the identity has returned normally and the next invocation
\* is a start of the same identity, then from the moment that second start
\* begins, through all its steps and after it, exactly one instance tagged
\* Name == fqdn is pending or running.
C1_StartTwiceOneInstance ==
    \A p \in Procs :
      LET pr == proc[p]
      IN  (pr.arguments.cmd = "start" /\ pr.prior.name = pr.arguments.name)
            => Cardinality(PresentOf(pr.prior.region, pr.prior.fqdn)) = 1

\* the second of two starts has returned, and said the node is running
C1_Witness ==
    \E p \in Procs :
      LET pr == proc[p]
      IN  /\ pr.pc = "done" /\ pr.exitcode = 0
          /\ pr.arguments.cmd = "start"
          /\ pr.prior.name = pr.arguments.name
          /\ pr.prior.fqdn = pr.metadata.fqdn
          /\ pr.output = <<Line(pr.metadata.fqdn \o " is currently running", 0)>>

\* C2: the step in which start observes an instance of the identity pending
\* or running changes nothing in EC2, is the last step of the invocation
\* (it returns with exit code 0 and the "currently running" line), and the
\* invocation has issued no create, tag, wait, stop or terminate call.
C2_StartPresentNoOp ==
    [][\A p \in Procs :
         (/\ proc'[p].arguments.cmd = "start"
          /\ proc[p].seen = ""
          /\ proc'[p].seen \in {"pending", "running"})
           => /\ cloud' = cloud
              /\ proc'[p].pc = "done"
              /\ proc'[p].exitcode = 0
              /\ \A k \in 1..Len(proc'[p].calls) :
                    proc'[p].calls[k].op \in {"connect", "list"}
              /\ proc'[p].output =
                    <<Line(proc'[p].metadata.fqdn \o " is currently running", 0)>>]_vars

\* start has found the node pending or running and has returned
C2_Witness ==
    \E p \in Procs :
      /\ proc[p].arguments.cmd = "start"
      /\ proc[p].seen \in {"pending", "running"}
      /\ proc[p].pc = "done"
      /\ Len(cloud) < MaxInstances

\* the calls of a start that launches, in order
StartSequence == <<"connect", "list", "create", "tag", "wait", "list", "list">>

\* C3: a start that observed no pending or running instance of the identity
\* issues its calls in the order list, create, tag, wait, status listing,
\* each only after the one before has returned successfully; it creates
\* one instance, tags that instance with Name = fqdn and Role = role and
\* waits for that instance; it prints nothing before the wait has returned;
\* and when it returns normally it has gone through all of them.
C3_StartOrder ==
    \A p \in Procs :
      LET pr == proc[p]
          n == Len(pr.calls)
      IN  (pr.arguments.cmd = "start" /\ pr.seen = "absent") =>
            /\ IsPrefix(Ops(pr), StartSequence)
            /\ \A k \in 1..(n - 1) : pr.calls[k].ok
            /\ n >= 3 /\ pr.calls[3].ok =>
                  /\ pr.instances = <<pr.calls[3].id>>
                  /\ pr.calls[3].id \in 1..Len(cloud)
            /\ n >= 4 =>
                  /\ pr.calls[4].id = pr.calls[3].id
                  /\ pr.calls[4].ok =>
                        /\ cloud[pr.calls[4].id].name = pr.metadata.fqdn
                        /\ cloud[pr.calls[4].id].role = pr.metadata.role
            /\ n >= 5 => pr.calls[5].id = pr.calls[3].id
            /\ pr.output # <<>> => n >= 6 /\ pr.calls[5].ok
            /\ (pr.pc = "done" /\ pr.exitcode = 0) =>
                  /\ n >= 6 /\ pr.calls[n].ok
                  /\ pr.output # <<>>

\* a start has launched the node, waited for it and reported it
C3_Witness ==
    \E p \in Procs :
      LET pr == proc[p]
      IN  /\ pr.arguments.cmd = "start" /\ pr.seen = "absent"
          /\ pr.pc = "done" /\ pr.exitcode = 0
          /\ Ops(pr) = StartSequence
          /\ \E k \in 1..Len(pr.output) : pr.output[k] = Line("row", pr.calls[3].id)

\* the stop and terminate requests of an invocation, in order
Requests(pr) == SelectSeq(pr.calls, LAMBDA c : c.op \in {"stop", "terminate"})

\* C4: a toggle of an aws node that has returned normally has started the
\* node if it was absent (one instance of the identity is pending or
\* running) and has otherwise issued stop and terminate to each of its
\* running instances.
C4_ToggleStartsOrStops ==
    \A p \in Procs :
      LET pr == proc[p]
      IN  (/\ pr.arguments.cmd = "toggle"
           /\ pr.pc = "done" /\ pr.exitcode = 0
           /\ pr.metadata.provider = "aws") =>
            /\ pr.seen = "absent" =>
                  Cardinality(PresentOf(pr.resource, pr.metadata.fqdn)) = 1
            /\ pr.seen # "absent" =>
                  \A i \in pr.found :
                    \E j, k \in 1..Len(pr.calls) :
                      /\ j < k
                      /\ pr.calls[j].op = "stop" /\ pr.calls[j].id = i
                      /\ pr.calls[k].op = "terminate" /\ pr.calls[k].id = i

\* C5: the stop and terminate requests of a stop go to instances that were
\* running and tagged Name == fqdn when stop listed them, and to no other;
\* they come in pairs, a stop and then a terminate to the same instance,
\* one pair per instance; and a stop that returns normally has issued the
\* pair to every one of the N instances.
C5_StopTargets ==
    \A p \in Procs :
      LET pr == proc[p]
          reqs == Requests(pr)
      IN  pr.arguments.cmd = "stop" =>
            /\ \A k \in 1..Len(reqs) :
                  /\ reqs[k].id \in pr.found
                  /\ reqs[k].op = IF k % 2 = 1 THEN "stop" ELSE "terminate"
                  /\ k % 2 = 0 => reqs[k].id = reqs[k - 1].id
                  /\ \A j \in 1..(k - 1) :
                        reqs[j].op = reqs[k].op => reqs[j].id # reqs[k].id
            /\ (pr.pc = "done" /\ pr.exitcode = 0) =>
                  /\ Len(reqs) = 2 * Cardinality(pr.found)
                  /\ {reqs[k].id : k \in 1..Len(reqs)} = pr.found
                  /\ \A k \in 1..Len(reqs) : reqs[k].ok

\* a stop has found two running instances of the node and has returned
C5_Witness ==
    \E p \in Procs :
      LET pr == proc[p]
      IN  /\ pr.arguments.cmd = "stop"
          /\ pr.pc = "done" /\ pr.exitcode = 0
          /\ Cardinality(pr.found) = 2
          /\ Len(Requests(pr)) = 4

\* C6: the step in which stop finds no running instance of the identity
\* changes nothing in EC2 and is the last step of the invocation: it returns
\* with exit code 0 and no error, having issued no stop and no terminate
\* request (nothing but the connection and the listing) and printed nothing.
C6_StopAbsentNoOp ==
    [][\A p \in Procs :
         (/\ proc'[p].arguments.cmd = "stop"
          /\ proc[p].seen = ""
          /\ proc'[p].seen \in {"absent", "pending"})
           => /\ cloud' = cloud
              /\ proc'[p].pc = "done"
              /\ proc'[p].exitcode = 0
              /\ proc'[p].error = ""
              /\ Ops(proc'[p]) = <<"connect", "list">>
              /\ proc'[p].output = <<>>]_vars

\* a stop has returned from a node that had no running instance, while an
\* instance of the node was pending
C6_Witness ==
    \E p \in Procs :
      /\ proc[p].arguments.cmd = "stop"
      /\ proc[p].seen = "pending"
      /\ proc[p].pc = "done"

\* C7: a check invocation never opens a connection and never issues a cloud
\* API call, whatever the provider; when it returns it has printed the
\* resolved metadata and nothing else.
C7_CheckNoCloudCall ==
    \A p \in Procs :
      LET pr == proc[p]
      IN  pr.arguments.cmd = "check" =>
            /\ pr.calls = <<>>
            /\ pr.resource = ""
            /\ (pr.pc = "done" /\ pr.error = "") =>
                  /\ pr.exitcode = 0
                  /\ pr.output = metadata_print(pr.metadata)

\* a check of an aws node has returned
C7_Witness ==
    \E p \in Procs :
      /\ proc[p].arguments.cmd = "check"
      /\ proc[p].pc = "done" /\ proc[p].exitcode = 0
      /\ proc[p].metadata.provider = "aws"
      /\ proc[p].metadata.region # Unset

\* C8: no cloud API call is made while the metadata is being resolved, and
\* an invocation whose hiera query failed, on whichever field, has ended
\* with a non-zero exit code without a connection, a cloud API call or a
\* line of output.
C8_ResolverFailureNoCloudCall ==
    \A p \in Procs :
      LET pr == proc[p]
      IN  /\ pr.pc \in {"metadata_get", "metadata_aws"} =>
                pr.calls = <<>> /\ pr.resource = ""
          /\ pr.error = "CalledProcessError" =>
                /\ pr.pc = "done"
                /\ pr.exitcode # 0
                /\ pr.calls = <<>>
                /\ pr.resource = ""
                /\ pr.output = <<>>

\* a start of an aws node has failed on a provider-specific field
C8_Witness ==
    \E p \in Procs :
      /\ proc[p].error = "CalledProcessError"
      /\ proc[p].arguments.cmd = "start"
      /\ proc[p].metadata.provider = "aws"
      /\ Len(proc[p].queries) > Len(CommonParams)

\* C9: a command other than check whose metadata resolved to a provider
\* other than aws ends with a non-zero exit code, having told the user that
\* the provider is unsupported and having issued no cloud API call.
C9_UnsupportedProviderFails ==
    \A p \in Procs :
      LET pr == proc[p]
      IN  (/\ pr.pc = "done"
           /\ pr.arguments.cmd # "check"
           /\ pr.error # "CalledProcessError"
           /\ pr.metadata.provider # "aws") =>
            /\ pr.exitcode # 0
            /\ pr.calls = <<>>
            /\ pr.output = <<Line("Unsupported metadata:provider from hiera: "
                                    \o pr.metadata.provider, 0)>>

\* the running instances of every identity in a region
RunningIn(region) ==
    {i \in 1..Len(cloud) : /\ cloud[i].region = region
                           /\ cloud[i].name # NoTag
                           /\ cloud[i].state = "running"}

\* C10: a status without a name that has returned normally has listed the
\* running instances with the wildcard on tag Name in region us-east-1, and
\* nothing else, and has reported every running instance of that region.
C10_StatusAllWildcard ==
    \A p \in Procs :
      LET pr == proc[p]
      IN  (/\ pr.arguments.cmd = "status" /\ pr.arguments.name = NoName
           /\ pr.pc = "done" /\ pr.error = "") =>
            /\ \E k \in 1..Len(pr.calls) : pr.calls[k].op = "list"
            /\ \A k \in 1..Len(pr.calls) :
                  pr.calls[k].op = "list" =>
                    /\ pr.calls[k].region = "us-east-1"
                    /\ pr.calls[k].name = "*"
                    /\ pr.calls[k].states = {"running"}
            /\ {pr.output[k].n : k \in {j \in 1..Len(pr.output) :
                                          pr.output[j].text = "row"}}
                  = RunningIn("us-east-1")

\* a start that observed no instance of the identity and whose create returned
Launched(pr) ==
    /\ pr.arguments.cmd = "start"
    /\ pr.seen = "absent"
    /\ Len(pr.calls) >= 3
    /\ pr.calls[3].op = "create" /\ pr.calls[3].ok

\* C11: nothing serialises two overlapping starts for one identity. When
\* both have observed no pending or running instance and the create of each
\* has returned, each has an instance of its own in EC2: the two instances
\* are different, and once both starts have tagged, both instances carry
\* Name = fqdn. (That is how two instances of one identity come to be
\* pending or running together, the state of C11_Witness.)
C11_ConcurrentStartsBothCreate ==
    \A p, q \in Procs :
      (p # q /\ Launched(proc[p]) /\ Launched(proc[q])) =>
        LET a == proc[p].calls[3].id
            b == proc[q].calls[3].id
        IN  /\ a # b
            /\ {a, b} \subseteq 1..Len(cloud)
            /\ cloud[a].region = proc[p].resource
            /\ cloud[b].region = proc[q].resource
            /\ (/\ Len(proc[p].calls) >= 4 /\ proc[p].calls[4].ok
                /\ Len(proc[q].calls) >= 4 /\ proc[q].calls[4].ok)
                 => /\ cloud[a].name = proc[p].metadata.fqdn
                    /\ cloud[b].name = proc[q].metadata.fqdn

\* two overlapping starts for one identity have both observed it absent and
\* both created and tagged: two instances of the identity are pending or
\* running
C11_Witness ==
    \E p, q \in Procs :
      /\ p # q
      /\ Launched(proc[p]) /\ Launched(proc[q])
      /\ proc[p].metadata.fqdn = proc[q].metadata.fqdn
      /\ proc[p].resource = proc[q].resource
      /\ {proc[p].calls[3].id, proc[q].calls[3].id}
            = PresentOf(proc[p].resource, proc[p].metadata.fqdn)
      /\ Cardinality(PresentOf(proc[p].resource, proc[p].metadata.fqdn)) = 2

\* the instances of an identity that are pending or running, in any region
PresentNamed(fqdn) ==
    {i \in 1..Len(cloud) :
       cloud[i].name = fqdn /\ cloud[i].state \in {"pending", "running"}}

\* C12: when the invocations do not overlap and EC2 held no instance of the
\* identity at first, at most one instance tagged Name = fqdn is pending or
\* running in every state, whatever the invocations were and also when
\* some of them failed after their create (in create_tags or in the wait).
C12_AtMostOnePresent ==
    Cardinality(PresentNamed(BuildFqdn("web", "example.com"))) <= 1

\* a start has found pending the instance that a start before it created
\* and did not see running, and has returned; that instance is the only one
C12_Witness ==
    \E p \in Procs :
      /\ proc[p].arguments.cmd = "start"
      /\ proc[p].pc = "done"
      /\ proc[p].seen = "pending"
      /\ Cardinality(PresentNamed(proc[p].metadata.fqdn)) = 1

\* C13: when create_tags or the wait fails in a start whose create has
\* succeeded, the failing call is the last thing the start does: it ends
\* with the exception uncaught (exit code 1), it has issued no stop and no
\* terminate request, it has printed nothing, and the instance it created
\* is still in EC2, in no state that a stop or terminate request leads to.
C13_FailureAfterCreate ==
    \A p \in Procs :
      LET pr == proc[p]
          n == Len(pr.calls)
      IN  (/\ pr.arguments.cmd = "start"
           /\ n >= 4
           /\ pr.calls[3].op = "create" /\ pr.calls[3].ok
           /\ \E k \in 4..n : pr.calls[k].op \in {"tag", "wait"} /\ ~pr.calls[k].ok)
            => /\ pr.calls[n].op \in {"tag", "wait"} /\ ~pr.calls[n].ok
               /\ pr.pc = "done"
               /\ pr.exitcode = 1
               /\ pr.error = (IF pr.calls[n].op = "tag" THEN "ClientError"
                              ELSE "WaiterError")
               /\ Requests(pr) = <<>>
               /\ pr.output = <<>>
               /\ pr.calls[3].id \in 1..Len(cloud)
               /\ cloud[pr.calls[3].id].state
                     \notin {"stopping", "stopped", "shutting-down"}

\* the wait of a start has failed while the instance it created and tagged
\* was still pending, and the instance is pending yet
C13_Witness ==
    \E p \in Procs :
      LET pr == proc[p]
      IN  /\ pr.arguments.cmd = "start"
          /\ pr.pc = "done"
          /\ pr.error = "WaiterError"
          /\ Len(pr.calls) = 5
          /\ pr.calls[5].op = "wait" /\ ~pr.calls[5].ok
          /\ cloud[pr.calls[3].id].state = "pending"
          /\ cloud[pr.calls[3].id].name = pr.metadata.fqdn

\* C14: every start comes to its end. Whatever EC2 and the invocations
\* beside it do, a start that is under way reaches the point where the
\* script exits; in particular its wait returns or raises also when the
\* instance stays pending for ever.
C14_StartTerminates ==
    \A p \in Procs :
      (proc[p].arguments.cmd = "start" /\ proc[p].pc # "idle")
         ~> (proc[p].pc = "done")

\* a start is over although its instance never left pending: the attempts
\* of the wait have run out
C14_Witness ==
    \E p \in Procs :
      LET pr == proc[p]
      IN  /\ pr.arguments.cmd = "start"
          /\ pr.pc = "done" /\ pr.exitcode = 1
          /\ pr.instances # <<>>
          /\ cloud[pr.instances[1]].state = "pending"
          /\ pr.calls[Len(pr.calls)] =
                Call("wait", pr.resource, "", {}, pr.instances[1], FALSE)

\* a status command that went through ec2_status and has returned
Reported(pr) ==
    /\ pr.arguments.cmd = "status"
    /\ pr.pc = "done" /\ pr.exitcode = 0
    /\ Len(pr.calls) >= 2

\* C15: a status report has one of two forms. When the count is zero it is
\* the single line "No instances running", with no header and no row. When
\* the count is one or more it is the count line, the header line and then
\* rows only, each row for a different instance of the region whose Name
\* tag matches the filter. The first line tells the two forms apart: the
\* "No instances running" line is printed if and only if the count is zero.
C15_StatusForms ==
    \A p \in Procs :
      LET pr == proc[p]
          out == pr.output
          none == Line("No instances running", 0)
      IN  Reported(pr) =>
            /\ Len(out) >= 1
            /\ (pr.count = 0) <=> (out[1] = none)
            /\ pr.count = 0 => out = <<none>>
            /\ pr.count # 0 =>
                  /\ Len(out) >= 2
                  /\ out[1] = Line("instances running", pr.count)
                  /\ out[2] = Line("instance_id public_ip_address", 0)
                  /\ \A k \in 3..Len(out) :
                        /\ out[k].text = "row"
                        /\ out[k].n \in 1..Len(cloud)
                        /\ cloud[out[k].n].region = pr.resource
                        /\ NameMatches(pr.metadata.fqdn, cloud[out[k].n].name)
                        /\ \A j \in 3..Len(out) : out[j] = out[k] => j = k

\* a status of a node with two running instances has printed the count 2,
\* the header and two rows
C15_Witness ==
    \E p \in Procs :
      LET pr == proc[p]
      IN  /\ Reported(pr)
          /\ pr.count = 2
          /\ Len(pr.output) = 4
          /\ pr.output[3].text = "row" /\ pr.output[4].text = "row"

\* the value the store holds for a node under a key
Stored(name, key) == CHOOSE v \in HieraData("fqdn=" \o name)[key] : TRUE

\* metadata_get has returned the metadata of the invocation
Resolved(pr) == pr.pc = "main" \/ (pr.pc = "done" /\ pr.exitcode = 0)

\* C16: the fqdn the resolver returns is the stored hostname, a dot and the
\* stored domain, in this order and with nothing else. Of two nodes whose
\* stored hostnames differ and whose stored domains agree, or the other way
\* round, the fqdns differ; and two nodes that differ in nothing but their
\* stored hostname and domain get the same value in every other field.
C16_FqdnConcatenation ==
    \A p, q \in Procs :
      LET m == proc[p].metadata
          n == proc[q].metadata
          a == proc[p].arguments.name
          b == proc[q].arguments.name
      IN  (Resolved(proc[p]) /\ Resolved(proc[q])) =>
            /\ m.hostname = Stored(a, "metadata:hostname")
            /\ m.domain = Stored(a, "metadata:domain")
            /\ m.fqdn = Stored(a, "metadata:hostname") \o "."
                           \o Stored(a, "metadata:domain")
            /\ (m.hostname # n.hostname /\ m.domain = n.domain) => m.fqdn # n.fqdn
            /\ (m.hostname = n.hostname /\ m.domain # n.domain) => m.fqdn # n.fqdn
            /\ (\A key \in DOMAIN HieraData("fqdn=" \o a) :
                   key \notin {"metadata:hostname", "metadata:domain"}
                     => Stored(a, key) = Stored(b, key))
                 => \A k \in MetaKeys \ {"hostname", "domain", "fqdn"} : m[k] = n[k]

\* two nodes that differ in their hostname only have been resolved: their
\* fqdns differ
C16_Witness ==
    \E p, q \in Procs :
      /\ Resolved(proc[p]) /\ Resolved(proc[q])
      /\ proc[p].metadata.hostname # proc[q].metadata.hostname
      /\ proc[p].metadata.domain = proc[q].metadata.domain
      /\ proc[p].metadata.fqdn # proc[q].metadata.fqdn
      /\ proc[p].metadata.region = proc[q].metadata.region

\* the keys of the common parameters and of the aws parameters, in the
\* order of the two lists
CommonKeys == [k \in 1..Len(CommonParams) |-> "metadata:" \o CommonParams[k]]

AwsKeys == [k \in 1..Len(AwsParams) |-> "metadata:aws:" \o AwsParams[k]]

\* C17: the queries of an invocation are, at every moment, a beginning of
\* the five common keys in list order followed by the six aws keys in list
\* order; an aws key is queried only after all five common keys have been
\* answered and the provider among the answers is aws; and an invocation
\* whose provider is anything else has queried no aws key when
\* metadata_get has returned.
C17_QueryOrder ==
    \A p \in Procs :
      LET pr == proc[p]
          n == Len(pr.queries)
      IN  /\ IsPrefix(pr.queries, CommonKeys \o AwsKeys)
          /\ n > Len(CommonKeys) => pr.metadata.provider = "aws"
          /\ (Resolved(pr) /\ pr.metadata.provider # "aws") => pr.queries = CommonKeys
          /\ (Resolved(pr) /\ pr.metadata.provider = "aws")
                => pr.queries = CommonKeys \o AwsKeys

\* metadata_get has returned for a node of another provider after the five
\* common queries
C17_Witness ==
    \E p \in Procs :
      /\ Resolved(proc[p])
      /\ proc[p].metadata.provider \notin {"aws", Unset}
      /\ proc[p].queries = CommonKeys

\* C18: once a stop of an identity has returned normally, no instance
\* tagged Name = fqdn is pending or running in the region of the node: the
\* node is absent. This is to hold also when the start before it gave up
\* waiting and left its instance pending.
C18_StopLeavesAbsent ==
    \A p \in Procs :
      LET pr == proc[p]
      IN  (/\ pr.arguments.cmd = "stop"
           /\ pr.pc = "done" /\ pr.exitcode = 0
           /\ Len(pr.calls) >= 2)
            => PresentOf(pr.resource, pr.metadata.fqdn) = {}

\* C19: in a status report that has been printed to its end, the count on
\* the first line is the number of rows under the header, whatever other
\* invocations and EC2 did to the instances while the report was printed.
C19_CountEqualsRows ==
    \A p \in Procs :
      LET pr == proc[p]
      IN  (/\ Reported(pr)
           /\ pr.output[1].text = "instances running")
            => /\ pr.output[1].n = pr.count
               /\ Len(pr.output) - 2 = pr.count

====
